---- MODULE Spec2Model ----
(***************************************************************************)
(* Model of the educational video generator backend:                       *)
(*   backend/ai_pipeline.py  enhance_text, generate_audio, generate_images, *)
(*                           assemble_video, process_video_pipeline         *)
(*   backend/main.py         POST /users/, POST /generate-video             *)
(*   backend/crud.py         get_user_by_email, create_user,                *)
(*                           create_user_video                              *)
(*   backend/models.py       User, Video                                    *)
(*                                                                         *)
(* Strings and paths are sequences of tokens.  The tokens ".mp4", "/", "." *)
(* and " " are the ones the code's string operations look for; no other    *)
(* token contains them, so str.replace, str.split, str.strip, os.path.join *)
(* and os.path.dirname are computed on tokens as Python computes them on   *)
(* characters.                                                             *)
(***************************************************************************)
EXTENDS Integers, Sequences, FiniteSets, TLC

VARIABLES
    files,      \* the file system: path |-> content, for the files that exist
    dirs,       \* the directories that exist
    writes,     \* history: <<caller, path>> for every file write of a caller
    env,        \* value of the ELEVENLABS_API_KEY environment variable
    job,        \* per generation request: frame of process_video_pipeline
    aud,        \* per caller: frame of generate_audio
    asm,        \* per caller: frame of assemble_video
    users,      \* table "users": sequence of rows, id = position
    videos,     \* table "videos": sequence of rows, id = position
    req         \* per create-user request: frame of main.create_user

vars == <<files, dirs, writes, env, job, aud, asm, users, videos, req>>

----------------------------------------------------------------------------
(* Bounds of the model *)

MaxJobs == 2        \* generation requests (and callers of the stage functions)
MaxReqs == 2        \* create-user requests
MaxVideos == 1      \* rows inserted by create_user_video
MaxDuration == 4    \* durations 1..MaxDuration tried besides the endpoint's 60
MaxImgs == 3        \* image-list lengths 0..MaxImgs of a direct assemble_video call

(* Program constants *)

EndpointDuration == 60      \* main.py: duration=60
PromptLimit == 3            \* ai_pipeline.py: [...][:3]
DefaultQuota == 10          \* models.py: video_quota default
HttpOk == 200               \* ai_pipeline.py: response.status_code != 200

Jobs == 1..MaxJobs
Reqs == 1..MaxReqs

----------------------------------------------------------------------------
(* Strings *)

None == "<None>"            \* Python's None, where a str is expected
NoFile == <<"<absent>">>    \* content of a path that names no file

Digits == <<"1", "2", "3", "4", "5", "6", "7", "8", "9">>

\* str(i) for 1 <= i <= 9
Str(i) == Digits[i]

\* s.replace(old, new): every non-overlapping occurrence, left to right
RECURSIVE ReplaceAll(_, _, _)
ReplaceAll(s, old, new) ==
    IF Len(s) < Len(old) THEN s
    ELSE IF SubSeq(s, 1, Len(old)) = old
         THEN new \o ReplaceAll(SubSeq(s, Len(old) + 1, Len(s)), old, new)
         ELSE <<s[1]>> \o ReplaceAll(Tail(s), old, new)

\* s.split(sep) for a one-token separator: the list of segments
RECURSIVE SplitAcc(_, _, _)
SplitAcc(s, sep, cur) ==
    IF s = <<>> THEN <<cur>>
    ELSE IF s[1] = sep THEN <<cur>> \o SplitAcc(Tail(s), sep, <<>>)
         ELSE SplitAcc(Tail(s), sep, Append(cur, s[1]))

Split(s, sep) == SplitAcc(s, sep, <<>>)

RECURSIVE LStrip(_)
LStrip(s) == IF s # <<>> /\ s[1] = " " THEN LStrip(Tail(s)) ELSE s

RECURSIVE RStrip(_)
RStrip(s) ==
    IF s # <<>> /\ s[Len(s)] = " " THEN RStrip(SubSeq(s, 1, Len(s) - 1)) ELSE s

\* s.strip()
Strip(s) == RStrip(LStrip(s))

\* os.path.join(a, b)
Join(a, b) ==
    IF b # <<>> /\ b[1] = "/" THEN b
    ELSE IF a = <<>> \/ a[Len(a)] = "/" THEN a \o b
         ELSE a \o <<"/">> \o b

\* position of the last "/" of p, 0 if there is none
RECURSIVE LastSlash(_)
LastSlash(p) ==
    IF p = <<>> THEN 0
    ELSE IF p[Len(p)] = "/" THEN Len(p)
         ELSE LastSlash(SubSeq(p, 1, Len(p) - 1))

RECURSIVE RStripSlash(_)
RStripSlash(p) ==
    IF p # <<>> /\ p[Len(p)] = "/" THEN RStripSlash(SubSeq(p, 1, Len(p) - 1))
    ELSE p

\* os.path.dirname(p)
Dirname(p) ==
    LET head == SubSeq(p, 1, LastSlash(p))
    IN  IF head # <<>> /\ RStripSlash(head) # <<>> THEN RStripSlash(head) ELSE head

\* p names something strictly inside directory d
IsUnder(p, d) ==
    /\ Len(p) > Len(d) + 1
    /\ SubSeq(p, 1, Len(d)) = d
    /\ p[Len(d) + 1] = "/"

----------------------------------------------------------------------------
(* File system *)

ContentOf(fs, p) == IF p \in DOMAIN fs THEN fs[p] ELSE NoFile

\* open(p, "wb").write(c): create or truncate p, then hold exactly c
WriteFile(fs, p, c) == [q \in DOMAIN fs \cup {p} |-> IF q = p THEN c ELSE fs[q]]

\* os.remove(p), p existing
RemoveFile(fs, p) == [q \in DOMAIN fs \ {p} |-> fs[q]]

RECURSIVE Ancestors(_)
Ancestors(d) ==
    IF d = <<>> THEN {}
    ELSE IF Dirname(d) = d THEN {d}
         ELSE {d} \cup Ancestors(Dirname(d))

\* os.makedirs(d, exist_ok=True)
MakeDirs(ds, d) == ds \cup Ancestors(d)

----------------------------------------------------------------------------
(* generate_audio: ElevenLabs text-to-speech                               *)

Voices == {"Rachel"}                \* req.voice_type
DirectVoices == {"Rachel", "Bella"} \* voice of a direct call
AudioOutPaths == {<<"output", ".mp3">>, <<"out", "/", "speech", ".mp3">>}
KeyValues == {None, "", "k"}        \* api_key argument / environment value
\* what the service may answer: response.status_code, response.content
Responses ==
    {[status |-> 200, body |-> <<"b1">>], [status |-> 200, body |-> <<"b1", "b2">>],
     [status |-> 201, body |-> <<"b1">>], [status |-> 404, body |-> <<"e">>],
     [status |-> 500, body |-> <<>>]}

IdleAud ==
    [pc |-> "idle", voice |-> "", out_path |-> <<>>, api_key |-> None,
     key |-> None, sent |-> <<>>, status |-> 0, body |-> <<>>,
     before |-> NoFile, err |-> "", ret |-> <<>>]

\* the frame of generate_audio(text, voice=v, out_path=p, api_key=k) on entry
CallAud(fs, v, p, k) ==
    [IdleAud EXCEPT !.pc = "L32", !.voice = v, !.out_path = p, !.api_key = k,
                    !.before = ContentOf(fs, p)]

\* mutant: the environment variable takes precedence over the argument
EffectiveKeyEnvFirst(api_key, envv) ==
    IF envv # None /\ envv # "" THEN envv ELSE api_key

\* lines 32-33: the argument, or the environment variable when it is None
EffectiveKey(api_key, envv) == IF api_key = None THEN envv ELSE api_key

\* line 34: not api_key
Falsy(k) == k = None \/ k = ""

\* mutant: any 2xx status is taken for success
StatusOkAny2xx(status) == status \div 100 = 2

\* line 47: response.status_code != 200 raises
StatusOk(status) == status = HttpOk

\* lines 32-35
AudioCheckKey(c) ==
    /\ aud[c].pc = "L32"
    /\ LET k == EffectiveKey(aud[c].api_key, env)
       IN  aud' = [aud EXCEPT ![c] =
                IF Falsy(k)
                THEN [@ EXCEPT !.pc = "raised", !.key = k, !.err = "RuntimeError"]
                ELSE [@ EXCEPT !.pc = "L46", !.key = k]]
    /\ UNCHANGED <<files, dirs, writes, env, job, asm, users, videos, req>>

\* lines 36-51: one requests.post; the service answers with any status and
\* body; a status other than 200 raises, otherwise the body is written to out_path
AudioRequest(c) ==
    /\ aud[c].pc = "L46"
    /\ \E rsp \in Responses :
         LET f == [aud[c] EXCEPT
                      !.sent = Append(@, [voice |-> aud[c].voice, key |-> aud[c].key]),
                      !.status = rsp.status, !.body = rsp.body]
         IN  IF StatusOk(rsp.status)
             THEN /\ files' = WriteFile(files, f.out_path, rsp.body)
                  /\ writes' = writes \cup {<<c, f.out_path>>}
                  /\ aud' = [aud EXCEPT ![c] =
                                [f EXCEPT !.pc = "returned", !.ret = f.out_path]]
             ELSE /\ aud' = [aud EXCEPT ![c] =
                                [f EXCEPT !.pc = "raised", !.err = "RuntimeError"]]
                  /\ UNCHANGED <<files, writes>>
    /\ UNCHANGED <<dirs, env, job, asm, users, videos, req>>

AudioNext(c) == AudioCheckKey(c) \/ AudioRequest(c)

----------------------------------------------------------------------------
(* assemble_video: two ffmpeg runs and the removal of the intermediate file *)

IdleAsm ==
    [pc |-> "idle", image_paths |-> <<>>, audio_path |-> <<>>, out_path |-> <<>>,
     duration |-> 0, img_pattern |-> <<>>, video_tmp |-> <<>>, img_count |-> 0,
     img_duration |-> 0, runs |-> <<>>, err |-> "", ret |-> <<>>]

\* the frame of assemble_video(imgs, audio, out_path=p, duration=d) on entry
CallAsm(imgs, audio, p, d) ==
    [IdleAsm EXCEPT !.pc = "L70", !.image_paths = imgs, !.audio_path = audio,
                    !.out_path = p, !.duration = d]

\* mutant: one intermediate file in the working directory for every call
VideoTmpShared(out_path) == <<"video", "_tmp", ".mp4">>

\* line 71: out_path.replace('.mp4', '_tmp.mp4')
VideoTmp(out_path) == ReplaceAll(out_path, <<".mp4">>, <<"_tmp", ".mp4">>)

\* line 70: os.path.join(os.path.dirname(image_paths[0]), "img_%d.png")
ImgPattern(image_paths) == Join(Dirname(image_paths[1]), <<"img_", "%d", ".png">>)

\* mutant: the per-image duration rounded up
ImgDurationCeil(duration, img_count) == (duration + img_count - 1) \div img_count

\* line 73: duration // img_count, img_count # 0
ImgDuration(duration, img_count) == duration \div img_count

\* mutant: the division is evaluated before the first image is looked at
PrepareErrorDivisionFirst(image_paths, duration) ==
    IF Len(image_paths) = 0 THEN "ZeroDivisionError"
    ELSE IF ImgDuration(duration, Len(image_paths)) = 0 THEN "ZeroDivisionError"
    ELSE ""

\* lines 70-77 in order: the exception the statements before the first
\* subprocess.run raise, "" if none
PrepareError(image_paths, duration) ==
    IF image_paths = <<>> THEN "IndexError"                       \* image_paths[0]
    ELSE IF Len(image_paths) = 0 THEN "ZeroDivisionError"         \* duration // 0
    ELSE IF ImgDuration(duration, Len(image_paths)) = 0
         THEN "ZeroDivisionError"                                 \* 1/img_duration
    ELSE ""

\* lines 70-77
AssemblePrepare(c) ==
    /\ asm[c].pc = "L70"
    /\ LET f == asm[c]
           e == PrepareError(f.image_paths, f.duration)
           n == Len(f.image_paths)
       IN  asm' = [asm EXCEPT ![c] =
                [f EXCEPT
                   !.pc = IF e = "" THEN "L78" ELSE "raised",
                   !.err = e,
                   !.img_pattern =
                       IF f.image_paths # <<>> THEN ImgPattern(f.image_paths) ELSE <<>>,
                   !.video_tmp =
                       IF f.image_paths # <<>> THEN VideoTmp(f.out_path) ELSE <<>>,
                   !.img_count = IF f.image_paths # <<>> THEN n ELSE 0,
                   !.img_duration =
                       IF n # 0 THEN ImgDuration(f.duration, n) ELSE 0]]
    /\ UNCHANGED <<files, dirs, writes, env, job, aud, users, videos, req>>

\* mutant: a failed run removes the file it was reading
ToolRunCleanup(c, cmd, out, content, nextpc) ==
    \/ /\ files' = WriteFile(files, out, content)
       /\ writes' = writes \cup {<<c, out>>}
       /\ asm' = [asm EXCEPT ![c] =
                     [@ EXCEPT !.pc = nextpc,
                               !.runs = Append(@, [cmd EXCEPT !.exit = 0])]]
    \/ /\ files' = RemoveFile(files, cmd.input)
       /\ UNCHANGED writes
       /\ asm' = [asm EXCEPT ![c] =
                     [@ EXCEPT !.pc = "raised", !.err = "CalledProcessError",
                               !.runs = Append(@, [cmd EXCEPT !.exit = 1])]]

\* subprocess.run(cmd, check=True) of a command writing `out`: the tool exits 0
\* having written `out`, or exits non-zero having written it in part or not at all
ToolRun(c, cmd, out, content, nextpc) ==
    \/ /\ files' = WriteFile(files, out, content)
       /\ writes' = writes \cup {<<c, out>>}
       /\ asm' = [asm EXCEPT ![c] =
                     [@ EXCEPT !.pc = nextpc,
                               !.runs = Append(@, [cmd EXCEPT !.exit = 0])]]
    \/ /\ \/ /\ files' = WriteFile(files, out, <<"partial">>)
             /\ writes' = writes \cup {<<c, out>>}
          \/ UNCHANGED <<files, writes>>
       /\ asm' = [asm EXCEPT ![c] =
                     [@ EXCEPT !.pc = "raised", !.err = "CalledProcessError",
                               !.runs = Append(@, [cmd EXCEPT !.exit = 1])]]

\* lines 74-78: ffmpeg -framerate 1/img_duration -i img_pattern ... video_tmp
AssembleFrames(c) ==
    /\ asm[c].pc = "L78"
    /\ ToolRun(c, [tool |-> "frames", framerate |-> <<1, asm[c].img_duration>>,
                   input |-> asm[c].img_pattern, audio |-> <<>>,
                   output |-> asm[c].video_tmp, exit |-> 0],
               asm[c].video_tmp, <<"frames">>, "L83")
    /\ UNCHANGED <<dirs, env, job, aud, users, videos, req>>

\* lines 80-83: ffmpeg -i video_tmp -i audio_path ... out_path
AssembleMux(c) ==
    /\ asm[c].pc = "L83"
    /\ ToolRun(c, [tool |-> "mux", framerate |-> <<>>,
                   input |-> asm[c].video_tmp, audio |-> asm[c].audio_path,
                   output |-> asm[c].out_path, exit |-> 0],
               asm[c].out_path, <<"muxed">>, "L85")
    /\ UNCHANGED <<dirs, env, job, aud, users, videos, req>>

\* lines 85-86: os.remove(video_tmp); return out_path
AssembleRemove(c) ==
    /\ asm[c].pc = "L85"
    /\ IF asm[c].video_tmp \in DOMAIN files
       THEN /\ files' = RemoveFile(files, asm[c].video_tmp)
            /\ asm' = [asm EXCEPT ![c] =
                          [@ EXCEPT !.pc = "returned", !.ret = asm[c].out_path]]
       ELSE /\ asm' = [asm EXCEPT ![c] =
                          [@ EXCEPT !.pc = "raised", !.err = "FileNotFoundError"]]
            /\ UNCHANGED files
    /\ UNCHANGED <<dirs, writes, env, job, aud, users, videos, req>>

AssembleNext(c) ==
    AssemblePrepare(c) \/ AssembleFrames(c) \/ AssembleMux(c) \/ AssembleRemove(c)

----------------------------------------------------------------------------
(* process_video_pipeline, run by POST /generate-video                     *)

Texts == {<<" ", ".">>}                                  \* req.text
\* what the language model appends to the text
Continuations == {<<" ">>, <<"a", ".", " ", "b", " ", ".", ".", "c", ".", "d">>}
Templates == {<<"flat">>}
UserIds == {"7"}

\* line 99: str(uuid.uuid4()), a fresh random identifier for every call; the value
\* drawn by the j-th request is named after it
Uuid4(j) == "u" \o Str(j)

Stages == <<"enhance_text", "generate_images", "generate_audio", "assemble_video">>

NoResult ==
    [job_id |-> "", video_path |-> <<>>, image_paths |-> <<>>, audio_path |-> <<>>,
     prompts |-> <<>>, enhanced_text |-> <<>>]

IdleJob ==
    [pc |-> "idle", text |-> <<>>, template |-> <<>>, voice_type |-> "",
     user_id |-> "", out_dir |-> <<>>, duration |-> 0, api_key |-> None,
     job_id |-> "", job_dir |-> <<>>, enhanced_text |-> <<>>, prompts |-> <<>>,
     image_paths |-> <<>>, audio_path |-> <<>>, video_path |-> <<>>,
     started |-> <<>>, finished |-> <<>>, err |-> "", result |-> NoResult]

\* the first n elements of s: s[:n]
Take(s, n) == SubSeq(s, 1, IF Len(s) < n THEN Len(s) ELSE n)

RECURSIVE PromptsOf(_, _)
PromptsOf(template, segs) ==
    IF segs = <<>> THEN <<>>
    ELSE IF Strip(segs[1]) # <<>>
         THEN <<template \o <<" educational image: ">> \o Strip(segs[1])>>
                  \o PromptsOf(template, Tail(segs))
         ELSE PromptsOf(template, Tail(segs))

\* line 105: one prompt per non-blank '.'-separated segment, the first three
ExtractPrompts(template, enhanced_text) ==
    Take(PromptsOf(template, Split(enhanced_text, ".")), PromptLimit)

\* line 61: os.path.join(out_dir, f"img_{i+1}.png"), i the 0-based index
ImgPath(out_dir, i) == Join(out_dir, <<"img_", Str(i + 1), ".png">>)

\* an exception leaves process_video_pipeline and generate_video
Abort(f, e) == [f EXCEPT !.pc = "failed", !.err = e]

\* main.py 61-74 and ai_pipeline.py 99-101: the request arrives, the job gets
\* its identifier and its directory
GenerateVideo(j) ==
    /\ job[j].pc = "idle"
    /\ \E t \in Texts, tp \in Templates, v \in Voices, u \in UserIds :
         LET id == Uuid4(j)
             out_dir == Join(<<"static">>, <<"videos">>)
             job_dir == Join(out_dir, <<id>>)
         IN  /\ job' = [job EXCEPT ![j] =
                    [IdleJob EXCEPT !.pc = "L103", !.text = t, !.template = tp,
                                    !.voice_type = v, !.user_id = u,
                                    !.out_dir = out_dir,
                                    !.duration = EndpointDuration, !.api_key = "k",
                                    !.job_id = id, !.job_dir = job_dir]]
             /\ dirs' = MakeDirs(dirs, job_dir)
    /\ UNCHANGED <<files, writes, env, aud, asm, users, videos, req>>

\* line 103 and lines 19-25: the model continues the input text, or loading or
\* running it raises
EnhanceText(j) ==
    /\ job[j].pc = "L103"
    /\ LET f == [job[j] EXCEPT !.started = Append(@, "enhance_text")]
       IN  \/ \E c \in Continuations :
                job' = [job EXCEPT ![j] =
                           [f EXCEPT !.pc = "L105",
                                     !.enhanced_text = job[j].text \o c,
                                     !.finished = Append(@, "enhance_text")]]
           \/ job' = [job EXCEPT ![j] = Abort(f, "OSError")]
    /\ UNCHANGED <<files, dirs, writes, env, aud, asm, users, videos, req>>

\* lines 105-107 and 56-58: the prompts; generate_images loads its model and
\* makes the output directory
GenerateImagesStart(j) ==
    /\ job[j].pc = "L105"
    /\ LET f == [job[j] EXCEPT
                    !.prompts = ExtractPrompts(job[j].template, job[j].enhanced_text),
                    !.started = Append(@, "generate_images")]
       IN  \/ /\ job' = [job EXCEPT ![j] = [f EXCEPT !.pc = "L59"]]
              /\ dirs' = MakeDirs(dirs, job[j].job_dir)
           \/ /\ job' = [job EXCEPT ![j] = Abort(f, "OSError")]
              /\ UNCHANGED dirs
    /\ UNCHANGED <<files, writes, env, aud, asm, users, videos, req>>

\* lines 59-63: one image per prompt, saved as img_<i+1>.png
GenerateImage(j) ==
    /\ job[j].pc = "L59"
    /\ Len(job[j].image_paths) < Len(job[j].prompts)
    /\ LET p == ImgPath(job[j].job_dir, Len(job[j].image_paths))
       IN  \/ /\ files' = WriteFile(files, p, <<"png">>)
              /\ writes' = writes \cup {<<j, p>>}
              /\ job' = [job EXCEPT ![j] =
                            [@ EXCEPT !.image_paths = Append(@, p)]]
           \/ /\ job' = [job EXCEPT ![j] = Abort(job[j], "RuntimeError")]
              /\ UNCHANGED <<files, writes>>
    /\ UNCHANGED <<dirs, env, aud, asm, users, videos, req>>

\* mutant: generate_audio is called while images are still being generated
AudioCallEarly(j) ==
    /\ job[j].pc = "L59"
    /\ LET audio_path == Join(job[j].job_dir, <<"audio", ".mp3">>)
       IN  /\ job' = [job EXCEPT ![j] =
                  [@ EXCEPT !.pc = "L110", !.audio_path = audio_path,
                            !.started = Append(@, "generate_audio")]]
           /\ aud' = [aud EXCEPT ![j] =
                  CallAud(files, job[j].voice_type, audio_path, job[j].api_key)]
    /\ UNCHANGED <<files, dirs, writes, env, asm, users, videos, req>>

\* lines 64, 107-110: generate_images returns its paths; generate_audio is called
AudioCall(j) ==
    /\ job[j].pc = "L59"
    /\ Len(job[j].image_paths) = Len(job[j].prompts)
    /\ LET audio_path == Join(job[j].job_dir, <<"audio", ".mp3">>)
       IN  /\ job' = [job EXCEPT ![j] =
                  [@ EXCEPT !.pc = "L110", !.audio_path = audio_path,
                            !.finished = Append(@, "generate_images"),
                            !.started = Append(@, "generate_audio")]]
           /\ aud' = [aud EXCEPT ![j] =
                  CallAud(files, job[j].voice_type, audio_path, job[j].api_key)]
    /\ UNCHANGED <<files, dirs, writes, env, asm, users, videos, req>>

\* lines 110-113: generate_audio has returned; assemble_video is called
AssembleCall(j) ==
    /\ job[j].pc = "L110"
    /\ aud[j].pc = "returned"
    /\ LET video_path == Join(job[j].job_dir, <<"video", ".mp4">>)
       IN  /\ job' = [job EXCEPT ![j] =
                  [@ EXCEPT !.pc = "L113", !.video_path = video_path,
                            !.finished = Append(@, "generate_audio"),
                            !.started = Append(@, "assemble_video")]]
           /\ asm' = [asm EXCEPT ![j] =
                  CallAsm(job[j].image_paths, job[j].audio_path, video_path,
                          job[j].duration)]
    /\ UNCHANGED <<files, dirs, writes, env, aud, users, videos, req>>

\* mutant: the finished job is written back to the database
PipelineReturnPersist(j) ==
    /\ job[j].pc = "L113"
    /\ asm[j].pc = "returned"
    /\ job' = [job EXCEPT ![j] =
           [@ EXCEPT !.pc = "returned",
                     !.finished = Append(@, "assemble_video"),
                     !.result = [job_id |-> job[j].job_id,
                                 video_path |-> job[j].video_path,
                                 image_paths |-> job[j].image_paths,
                                 audio_path |-> job[j].audio_path,
                                 prompts |-> job[j].prompts,
                                 enhanced_text |-> job[j].enhanced_text]]]
    /\ videos' = [i \in 1..Len(videos) |->
                     [videos[i] EXCEPT !.status = "completed",
                                       !.video_url = job[j].video_path]]
    /\ UNCHANGED <<files, dirs, writes, env, aud, asm, users, req>>

\* lines 113-121 and main.py 75: assemble_video has returned; the result goes
\* to the caller
PipelineReturn(j) ==
    /\ job[j].pc = "L113"
    /\ asm[j].pc = "returned"
    /\ job' = [job EXCEPT ![j] =
           [@ EXCEPT !.pc = "returned",
                     !.finished = Append(@, "assemble_video"),
                     !.result = [job_id |-> job[j].job_id,
                                 video_path |-> job[j].video_path,
                                 image_paths |-> job[j].image_paths,
                                 audio_path |-> job[j].audio_path,
                                 prompts |-> job[j].prompts,
                                 enhanced_text |-> job[j].enhanced_text]]]
    /\ UNCHANGED <<files, dirs, writes, env, aud, asm, users, videos, req>>

\* process_video_pipeline has no try/except: what a stage function raises leaves
\* it, and generate_video, at once, so the job has failed as soon as a callee has
JobFailed(j) ==
    \/ job[j].pc = "failed"
    \/ job[j].pc = "L110" /\ aud[j].pc = "raised"
    \/ job[j].pc = "L113" /\ asm[j].pc = "raised"

JobNext(j) ==
    \/ GenerateVideo(j) \/ EnhanceText(j) \/ GenerateImagesStart(j)
    \/ GenerateImage(j) \/ AudioCall(j) \/ AssembleCall(j)
    \/ PipelineReturn(j)
    \/ AudioNext(j) \/ AssembleNext(j)

----------------------------------------------------------------------------
(* The users and videos tables, POST /users/ and crud.create_user_video    *)

Emails == {"a@x", "b@x"}
Titles == {"t1"}

IdleReq == [pc |-> "idle", email |-> "", resp |-> 0, created |-> 0]

\* crud.get_user_by_email: the first row with that email, 0 for None
GetUserByEmail(us, email) ==
    IF \E i \in 1..Len(us) : us[i].email = email
    THEN CHOOSE i \in 1..Len(us) :
            /\ us[i].email = email
            /\ \A k \in 1..(i - 1) : us[k].email # email
    ELSE 0

\* models.py line 11: unique=True on users.email, what INSERT is checked against
EmailTaken(us, email) == \E i \in 1..Len(us) : us[i].email = email

\* main.py 42-45: the request arrives; a registered email is answered with 400
CreateUserCheck(r) ==
    /\ req[r].pc = "idle"
    /\ \E e \in Emails :
         req' = [req EXCEPT ![r] =
                    IF GetUserByEmail(users, e) # 0
                    THEN [@ EXCEPT !.pc = "done", !.email = e, !.resp = 400]
                    ELSE [@ EXCEPT !.pc = "L46", !.email = e]]
    /\ UNCHANGED <<files, dirs, writes, env, job, aud, asm, users, videos>>

\* main.py 46 and crud.py 8-13: INSERT and commit; the unique index rejects a
\* second row with the email (IntegrityError, not caught: a 500 response)
CreateUserCommit(r) ==
    /\ req[r].pc = "L46"
    /\ IF EmailTaken(users, req[r].email)
       THEN /\ req' = [req EXCEPT ![r] = [@ EXCEPT !.pc = "done", !.resp = 500]]
            /\ UNCHANGED users
       ELSE /\ users' = Append(users, [id |-> Len(users) + 1, email |-> req[r].email,
                                       video_quota |-> DefaultQuota])
            /\ req' = [req EXCEPT ![r] =
                          [@ EXCEPT !.pc = "done", !.resp = 200,
                                    !.created = Len(users) + 1]]
    /\ UNCHANGED <<files, dirs, writes, env, job, aud, asm, videos>>

\* crud.py 18-23: a Video row for an existing user, status "processing" and no
\* video_url by default
CreateUserVideo ==
    /\ Len(videos) < MaxVideos
    /\ \E u \in 1..Len(users), t \in Titles, txt \in Texts, tp \in Templates :
         videos' = Append(videos, [id |-> Len(videos) + 1, user_id |-> u,
                                   title |-> t, original_text |-> txt,
                                   template |-> tp, video_url |-> <<>>,
                                   status |-> "processing"])
    /\ UNCHANGED <<files, dirs, writes, env, job, aud, asm, users, req>>

DbNext == (\E r \in Reqs : CreateUserCheck(r) \/ CreateUserCommit(r)) \/ CreateUserVideo

----------------------------------------------------------------------------
(* Specifications *)

\* the server after start-up: no request yet, empty tables, nothing generated
Init ==
    /\ files = <<>>
    /\ dirs = {}
    /\ writes = {}
    /\ env = None
    /\ job = [j \in Jobs |-> IdleJob]
    /\ aud = [j \in Jobs |-> IdleAud]
    /\ asm = [j \in Jobs |-> IdleAsm]
    /\ users = <<>>
    /\ videos = <<>>
    /\ req = [r \in Reqs |-> IdleReq]

\* requests are handled independently of each other (one per worker), a step at
\* a time
Next == \E j \in Jobs : JobNext(j)

Spec == Init /\ [][Next]_vars


\* the server handling create-user requests, video rows and one generation request
SpecDb == Init /\ [][DbNext \/ JobNext(1)]_vars

OutPaths ==
    {<<"output", ".mp4">>, <<"output", ".mov">>,
     <<"clips", ".mp4", "/", "video", ".mp4">>}

Durations == 1..MaxDuration \cup {EndpointDuration}

ImageList(n) == [i \in 1..n |-> ImgPath(<<"imgs">>, i - 1)]

\* one direct call of assemble_video, its images and audio on disk
InitAssemble ==
    \E n \in 0..MaxImgs, p \in OutPaths, d \in Durations :
        LET imgs == ImageList(n)
            audio == <<"audio", ".mp3">>
            paths == {imgs[i] : i \in 1..n} \cup {audio}
        IN  /\ files = [q \in paths |-> <<"given">>]
            /\ dirs = {<<"imgs">>}
            /\ writes = {}
            /\ env = None
            /\ job = [j \in Jobs |-> IdleJob]
            /\ aud = [j \in Jobs |-> IdleAud]
            /\ asm = [j \in Jobs |-> IF j = 1 THEN CallAsm(imgs, audio, p, d)
                                     ELSE IdleAsm]
            /\ users = <<>>
            /\ videos = <<>>
            /\ req = [r \in Reqs |-> IdleReq]

SpecAssemble == InitAssemble /\ [][AssembleNext(1)]_vars

\* one direct call of generate_audio; out_path may already hold a file
InitAudio ==
    \E k \in KeyValues, e \in KeyValues, v \in DirectVoices, p \in AudioOutPaths,
       old \in {NoFile, <<"old">>} :
        LET fs == IF old = NoFile THEN <<>> ELSE [q \in {p} |-> old]
        IN  /\ files = fs
            /\ dirs = {<<"out">>}
            /\ writes = {}
            /\ env = e
            /\ job = [j \in Jobs |-> IdleJob]
            /\ aud = [j \in Jobs |-> IF j = 1 THEN CallAud(fs, v, p, k) ELSE IdleAud]
            /\ asm = [j \in Jobs |-> IdleAsm]
            /\ users = <<>>
            /\ videos = <<>>
            /\ req = [r \in Reqs |-> IdleReq]

SpecAudio == InitAudio /\ [][AudioNext(1)]_vars


----------------------------------------------------------------------------
(* Properties *)

IsPrefix(s, t) == Len(s) <= Len(t) /\ s = SubSeq(t, 1, Len(s))

\* C1: in every job the four stages are each started at most once, in the order
\* enhance_text, generate_images, generate_audio, assemble_video; a stage starts
\* only after the one before it has returned; the result is returned only after
\* assemble_video has returned.
StagesInOrder ==
    \A j \in Jobs :
        /\ IsPrefix(job[j].started, Stages)
        /\ IsPrefix(job[j].finished, job[j].started)
        /\ Len(job[j].started) <= Len(job[j].finished) + 1
        /\ job[j].image_paths # <<>> => Len(job[j].finished) >= 1
        /\ aud[j].pc # "idle" =>
              /\ Len(job[j].finished) >= 2
              /\ Len(job[j].image_paths) = Len(job[j].prompts)
        /\ asm[j].pc # "idle" => aud[j].pc = "returned" /\ Len(job[j].finished) >= 3
        /\ job[j].pc = "returned" =>
              /\ asm[j].pc = "returned"
              /\ job[j].finished = Stages
              /\ job[j].result # NoResult
        /\ job[j].pc # "returned" => job[j].result = NoResult

StagesInOrderWitness ==
    \E j \in Jobs : job[j].pc = "returned" /\ Len(job[j].image_paths) = PromptLimit

\* C2: every file a job writes lies inside its own directory out_dir/<job_id>;
\* no path is written by two jobs with different job ids; every path of a
\* returned result lies under the directory named by the returned job_id.
JobFilesPrivate ==
    /\ \A w \in writes : IsUnder(w[2], Join(job[w[1]].out_dir, <<job[w[1]].job_id>>))
    /\ \A w1, w2 \in writes :
          job[w1[1]].job_id # job[w2[1]].job_id => w1[2] # w2[2]
    /\ \A j \in Jobs :
          job[j].pc = "returned" =>
              LET r == job[j].result
                  d == Join(job[j].out_dir, <<r.job_id>>)
              IN  /\ IsUnder(r.video_path, d)
                  /\ IsUnder(r.audio_path, d)
                  /\ \A i \in 1..Len(r.image_paths) : IsUnder(r.image_paths[i], d)

JobFilesPrivateWitness ==
    \E j1, j2 \in Jobs :
        /\ j1 # j2
        /\ job[j1].pc = "returned" /\ job[j2].pc = "L113" /\ asm[j2].pc = "L85"
        /\ job[j1].text = job[j2].text /\ job[j1].template = job[j2].template
        /\ job[j1].voice_type = job[j2].voice_type
        /\ job[j1].user_id = job[j2].user_id
        /\ \E w \in writes : w[1] = j1 /\ w[2] = asm[j1].video_tmp
        /\ \E w \in writes : w[1] = j2 /\ w[2] = asm[j2].video_tmp

\* C3: a generation request, whether it succeeds or fails, leaves the users and
\* videos tables as they are: every step of the pipeline leaves both unchanged,
\* so no Video row appears, no status leaves "processing", no video_url is set
\* and no video_quota changes.
GenerationLeavesDb ==
    /\ [](/\ \A i \in 1..Len(videos) :
                videos[i].status = "processing" /\ videos[i].video_url = <<>>
          /\ \A i \in 1..Len(users) : users[i].video_quota = DefaultQuota)
    /\ [][<<job, aud, asm, files, dirs, writes>>' # <<job, aud, asm, files, dirs, writes>>
             => UNCHANGED <<users, videos>>]_vars

GenerationLeavesDbWitness ==
    /\ job[1].pc = "returned"
    /\ Len(users) > 0
    /\ Len(videos) > 0

\* an API key is available to the call: the argument, or the environment
\* variable when the argument is None, is a non-empty string
KeyAvailable(api_key, envv) ==
    \/ api_key # None /\ api_key # ""
    \/ api_key = None /\ envv # None /\ envv # ""

AudioFinished(c) == aud[c].pc \in {"returned", "raised"}

\* what C4 says of a finished call, given which statuses make it raise
AudioContract(c, raises(_)) ==
    /\ Len(aud[c].sent) = 1
    /\ aud[c].pc = "raised" <=> raises(aud[c].status)
    /\ aud[c].pc = "raised" =>
          /\ ContentOf(files, aud[c].out_path) = aud[c].before
          /\ \A w \in writes : w[1] # c
    /\ aud[c].pc = "returned" =>
          /\ ContentOf(files, aud[c].out_path) = aud[c].body
          /\ aud[c].ret = aud[c].out_path

Non2xx(status) == status < 200 \/ status > 299
Not200(status) == status # 200

\* C4 as stated: with a key available generate_audio sends one request, raises
\* if and only if the status is non-2xx, writes nothing when it raises, and
\* otherwise writes the response bytes to out_path and returns out_path.
AudioRaisesIffNon2xx ==
    \A c \in Jobs :
        KeyAvailable(aud[c].api_key, env) /\ AudioFinished(c) => AudioContract(c, Non2xx)

\* C4 amended: as above, but it raises if and only if the status is not 200
\* (201 and the other 2xx statuses raise too).
AudioRaisesIffNot200 ==
    \A c \in Jobs :
        KeyAvailable(aud[c].api_key, env) /\ AudioFinished(c) => AudioContract(c, Not200)

AudioRaisesIffNot200Witness ==
    /\ aud[1].pc = "raised"
    /\ aud[1].status = 201
    /\ aud[1].before = <<"old">>
    /\ aud[1].api_key = None

\* no usable credential: the argument is None and the variable unset or empty,
\* or the argument is the empty string
NoCredential(api_key, envv) ==
    \/ api_key = None /\ (envv = None \/ envv = "")
    \/ api_key = ""

\* C5: with no usable credential generate_audio raises before any HTTP request
\* is sent and before out_path is created or modified.
NoKeyNoRequest ==
    \A c \in Jobs :
        aud[c].pc # "idle" /\ NoCredential(aud[c].api_key, env) =>
            /\ aud[c].pc \in {"L32", "raised"}
            /\ aud[c].pc = "raised" => aud[c].err = "RuntimeError"
            /\ aud[c].sent = <<>>
            /\ ContentOf(files, aud[c].out_path) = aud[c].before
            /\ \A w \in writes : w[1] # c

NoKeyNoRequestWitness ==
    /\ aud[1].pc = "raised"
    /\ aud[1].api_key = ""
    /\ env = "k"
    /\ aud[1].before = NoFile


\* C6: no two User rows have the same email, and a create-user request that
\* adds no row (its email being registered already) is answered with the 400
\* "Email already registered" error, also when two requests for the same new
\* email both pass the get_user_by_email check before either commits.
DuplicateEmailAnswered400 ==
    /\ \A i, k \in 1..Len(users) : i # k => users[i].email # users[k].email
    /\ \A r \in Reqs :
          req[r].pc = "done" /\ req[r].created = 0 => req[r].resp = 400

\* C7: for a non-empty image list and any out_path the intermediate path differs
\* from out_path, and a call that returns has run the tool exactly twice, frames
\* to the intermediate file and then the mux from it to out_path, has deleted
\* the intermediate file and has left the file at the returned out_path.
AssembleLeavesOutput ==
    \A c \in Jobs :
        asm[c].image_paths # <<>> /\ asm[c].pc \notin {"idle", "L70"} =>
            /\ asm[c].video_tmp # asm[c].out_path
            /\ asm[c].pc = "returned" =>
                  /\ Len(asm[c].runs) = 2
                  /\ asm[c].runs[1].tool = "frames"
                  /\ asm[c].runs[1].output = asm[c].video_tmp
                  /\ asm[c].runs[2].tool = "mux"
                  /\ asm[c].runs[2].input = asm[c].video_tmp
                  /\ asm[c].runs[2].output = asm[c].out_path
                  /\ asm[c].video_tmp \notin DOMAIN files
                  /\ asm[c].ret = asm[c].out_path
                  /\ asm[c].ret \in DOMAIN files

\* the text has a '.'-separated segment that is not blank
HasSegment(text) == \E i \in 1..Len(text) : text[i] \notin {".", " "}

\* what C8 says of the pipeline's call of assemble_video, given the exception
EmptyImageListFails(exception) ==
    \A j \in Jobs :
        job[j].pc # "idle" /\ asm[j].pc # "idle" =>
            /\ asm[j].image_paths = <<>> <=> ~HasSegment(job[j].enhanced_text)
            /\ aud[j].pc = "returned"
            /\ asm[j].image_paths = <<>> /\ asm[j].pc # "L70" =>
                  /\ asm[j].pc = "raised"
                  /\ asm[j].err = exception
                  /\ asm[j].runs = <<>>

\* C8 as stated: assemble_video called with no images fails with the division
\* by the image count, before any tool run; the pipeline reaches this exactly
\* when the enhanced text has no non-blank segment, after generate_audio.
EmptyImageListDivisionError == EmptyImageListFails("ZeroDivisionError")

\* C8 amended: the failure is the IndexError of image_paths[0], which comes
\* before the division; the rest as stated.
EmptyImageListIndexError == EmptyImageListFails("IndexError")

EmptyImageListIndexErrorWitness ==
    \E j \in Jobs :
        /\ job[j].pc = "L113"
        /\ asm[j].pc = "raised"
        /\ asm[j].image_paths = <<>>
        /\ job[j].audio_path \in DOMAIN files

AssemblePrepared(c) == asm[c].pc \notin {"idle", "L70"} /\ asm[c].img_count >= 1

\* C9 as stated: for every positive duration and n >= 1 images the per-image
\* duration d is a positive integer with d * n = duration.
ImgDurationExact ==
    \A c \in Jobs :
        AssemblePrepared(c) =>
            /\ asm[c].img_duration > 0
            /\ asm[c].img_duration * asm[c].img_count = asm[c].duration

\* C9 amended: d is the quotient rounded down, d * n <= duration < (d + 1) * n;
\* d is positive exactly when duration >= n, and the call goes on to the tool
\* exactly then (d = 0 fails on 1/d); d * n = duration exactly when n divides
\* duration, as it does for the endpoint's 60 with 1 to 3 images.
ImgDurationFloor ==
    \A c \in Jobs :
        AssemblePrepared(c) =>
            LET d == asm[c].img_duration
                n == asm[c].img_count
                t == asm[c].duration
            IN  /\ n = Len(asm[c].image_paths)
                /\ d >= 0
                /\ d * n <= t /\ t < (d + 1) * n
                /\ d > 0 <=> t >= n
                /\ d = 0 <=> asm[c].pc = "raised" /\ asm[c].err = "ZeroDivisionError"
                /\ d * n = t <=> t % n = 0
                /\ t = EndpointDuration /\ n <= PromptLimit => d > 0 /\ d * n = t

ImgDurationFloorWitness ==
    /\ asm[1].pc = "L83"
    /\ asm[1].duration = 4
    /\ asm[1].img_count = 3
    /\ asm[1].img_duration = 1

\* the files caller j has written are all on disk
WrittenRemain(j) == \A w \in writes : w[1] = j => w[2] \in DOMAIN files

\* C10: once a stage of a job has failed, no later stage is started, no stage is
\* run again, no result is returned and nothing is cleaned up: the job directory
\* and every file the job wrote (the images, audio.mp3, and video_tmp.mp4 when
\* the mux fails) stay on disk.
FailedJobLeftAsIs ==
    /\ [](\A j \in Jobs :
            JobFailed(j) =>
                /\ job[j].result = NoResult
                /\ job[j].started = Take(Stages, Len(job[j].finished) + 1)
                /\ job[j].job_dir \in dirs
                /\ WrittenRemain(j)
                /\ \A i \in 1..Len(job[j].image_paths) :
                      job[j].image_paths[i] \in DOMAIN files
                /\ aud[j].pc = "returned" => job[j].audio_path \in DOMAIN files
                /\ asm[j].pc = "raised" /\ Len(asm[j].runs) = 2 =>
                      asm[j].video_tmp \in DOMAIN files)
    /\ [][\A j \in Jobs :
            JobFailed(j) =>
                /\ job'[j] = job[j] /\ aud'[j] = aud[j] /\ asm'[j] = asm[j]
                /\ WrittenRemain(j)']_vars

FailedJobLeftAsIsWitness ==
    \E j \in Jobs :
        /\ job[j].pc = "L113"
        /\ asm[j].pc = "raised"
        /\ Len(asm[j].runs) = 2
        /\ Len(job[j].image_paths) = PromptLimit
        /\ \E k \in Jobs : k # j /\ job[k].pc = "returned"

====
